---- MODULE Spec2Model ----
(***************************************************************************)
(* A model of the schema AST (src/src/AST.ts), of the parse-result error   *)
(* model (src/unnamed/part_001, ParseResult) and of the decode/encode      *)
(* engine exercised by the union tests (src/unnamed/part_000).             *)
(*                                                                         *)
(* The state is the last call a client made (op, args), what the call      *)
(* returned or threw (result), and the tuple the client is extending with  *)
(* appendElement / appendRestElement (tup).                                *)
(***************************************************************************)
EXTENDS Integers, Sequences, FiniteSets, TLC

VARIABLES op, args, result, tup, calls

vars == <<op, args, result, tup, calls>>

(***************************************************************************)
(* Bounds of the model.                                                    *)
(***************************************************************************)
MaxCandidates == 2
MaxFields == 2
MaxIndexSignatures == 2
MaxElements == 2
MaxRest == 2
MaxCalls == 2
MaxErrors == 2
MaxInner == 2

(***************************************************************************)
(* Option (fp-ts) and thrown errors.                                       *)
(***************************************************************************)
none == [_tag |-> "None"]
some(v) == [_tag |-> "Some", value |-> v]
isSome(o) == o._tag = "Some"

Throw(message) == [_tag |-> "Error", message |-> message]
isError(r) == r._tag = "Error"

(***************************************************************************)
(* Annotation maps: a map is modelled by the set of its keys.              *)
(***************************************************************************)
NoAnnotations == {}
IdAnnotation == {"id"}

(***************************************************************************)
(* Literal values and property keys.  A JS value is a record with its      *)
(* typeof and its value.                                                   *)
(***************************************************************************)
Str(s) == [type |-> "string", val |-> s]
Num(n) == [type |-> "number", val |-> n]
Null == [type |-> "null", val |-> "null"]
Bool(b) == [type |-> "boolean", val |-> b]
Obj(props) == [type |-> "object", val |-> props]

(***************************************************************************)
(* AST constructors.                                                       *)
(***************************************************************************)
typeAlias(typeParameters, type, annotations) ==
  [_tag |-> "TypeAlias", typeParameters |-> typeParameters, type |-> type,
   annotations |-> annotations]

literalType(literal, annotations) ==
  [_tag |-> "LiteralType", literal |-> literal, annotations |-> annotations]

uniqueSymbol(symbol, annotations) ==
  [_tag |-> "UniqueSymbol", symbol |-> symbol, annotations |-> annotations]

undefinedKeyword(annotations) == [_tag |-> "UndefinedKeyword", annotations |-> annotations]
voidKeyword(annotations) == [_tag |-> "VoidKeyword", annotations |-> annotations]
neverKeyword(annotations) == [_tag |-> "NeverKeyword", annotations |-> annotations]
unknownKeyword(annotations) == [_tag |-> "UnknownKeyword", annotations |-> annotations]
anyKeyword(annotations) == [_tag |-> "AnyKeyword", annotations |-> annotations]
stringKeyword(annotations) == [_tag |-> "StringKeyword", annotations |-> annotations]
numberKeyword(annotations) == [_tag |-> "NumberKeyword", annotations |-> annotations]
booleanKeyword(annotations) == [_tag |-> "BooleanKeyword", annotations |-> annotations]
bigIntKeyword(annotations) == [_tag |-> "BigIntKeyword", annotations |-> annotations]
symbolKeyword(annotations) == [_tag |-> "SymbolKeyword", annotations |-> annotations]
objectKeyword(annotations) == [_tag |-> "ObjectKeyword", annotations |-> annotations]

element(type, isOptional, annotations) ==
  [type |-> type, isOptional |-> isOptional, annotations |-> annotations]

tuple(elements, rest, isReadonly, annotations, allowUnexpected) ==
  [_tag |-> "Tuple", elements |-> elements, rest |-> rest, isReadonly |-> isReadonly,
   annotations |-> annotations, allowUnexpected |-> allowUnexpected]

isTuple(ast) == ast._tag = "Tuple"

field(key, value, isOptional, isReadonly, annotations) ==
  [key |-> key, value |-> value, isOptional |-> isOptional, isReadonly |-> isReadonly,
   annotations |-> annotations]

indexSignature(key, value, isReadonly, annotations) ==
  [key |-> key, value |-> value, isReadonly |-> isReadonly, annotations |-> annotations]

lazy(f, annotations) == [_tag |-> "Lazy", f |-> f, annotations |-> annotations]

enums(es, annotations) == [_tag |-> "Enums", enums |-> es, annotations |-> annotations]

refinement(from, pred, meta, annotations) ==
  [_tag |-> "Refinement", from |-> from, refinement |-> pred, meta |-> meta,
   annotations |-> annotations]

isUnion(ast) == ast._tag = "Union"
isStruct(ast) == ast._tag = "Struct"

string == stringKeyword(NoAnnotations)
number == numberKeyword(NoAnnotations)
symbol == symbolKeyword(NoAnnotations)
never == neverKeyword(NoAnnotations)

(***************************************************************************)
(* ReadonlyArray helpers of the fp-ts library, as AST.ts uses them.        *)
(***************************************************************************)
\* RA.sort: a stable sort; keys[i] is the value the Order compares for xs[i].
RankOf(keys, i) ==
  Cardinality({j \in DOMAIN keys : keys[j] < keys[i] \/ (keys[j] = keys[i] /\ j < i)}) + 1

sort(keys, xs) ==
  [r \in 1..Len(xs) |-> xs[CHOOSE i \in DOMAIN xs : RankOf(keys, i) = r]]

\* RA.uniq: keeps the first of the elements that are structurally equal.
RECURSIVE uniq(_)
uniq(xs) ==
  IF xs = <<>> THEN <<>>
  ELSE LET init == uniq(SubSeq(xs, 1, Len(xs) - 1))
           last == xs[Len(xs)]
       IN IF \E i \in DOMAIN init : init[i] = last THEN init ELSE Append(init, last)

\* RA.flatMap over already mapped parts: the concatenation of a sequence of sequences.
RECURSIVE flatten(_)
flatten(xss) ==
  IF xss = <<>> THEN <<>> ELSE xss[1] \o flatten(Tail(xss))

\* RA.intersection(that)(self): the elements of self that occur in that.
RECURSIVE intersection(_, _)
intersection(that, self) ==
  IF self = <<>> THEN <<>>
  ELSE LET rest == intersection(that, Tail(self))
       IN IF \E i \in DOMAIN that : that[i] = self[1] THEN <<self[1]>> \o rest ELSE rest

(***************************************************************************)
(* Cardinality order of struct fields and index signatures.                *)
(***************************************************************************)
RECURSIVE getCardinality(_)
getCardinality(ast) ==
  CASE ast._tag = "TypeAlias" -> getCardinality(ast.type)
    [] ast._tag = "NeverKeyword" -> 0
    [] ast._tag \in {"LiteralType", "UndefinedKeyword", "UniqueSymbol"} -> 1
    [] ast._tag = "BooleanKeyword" -> 2
    [] ast._tag \in {"StringKeyword", "NumberKeyword", "BigIntKeyword", "SymbolKeyword"} -> 3
    [] ast._tag \in {"UnknownKeyword", "AnyKeyword"} -> 4
    [] OTHER -> 5

\* Variant: the lists are stored as given.
sortByCardinalityAsc_unsorted(xs) == xs

sortByCardinalityAsc(xs) ==
  sort([i \in DOMAIN xs |-> getCardinality(xs[i].value)], xs)

struct(fields, indexSignatures, annotations, allowUnexpected) ==
  [_tag |-> "Struct",
   fields |-> sortByCardinalityAsc(fields),
   indexSignatures |-> sortByCardinalityAsc(indexSignatures),
   annotations |-> annotations,
   allowUnexpected |-> allowUnexpected]

(***************************************************************************)
(* Weight order of union members.                                          *)
(***************************************************************************)
RECURSIVE SumSeq(_)
SumSeq(ns) == IF ns = <<>> THEN 0 ELSE ns[1] + SumSeq(Tail(ns))

LazyWeight == 10

RECURSIVE getWeight(_)

\* Variant: a Struct weighs nothing, like a keyword.
getWeight_structsWeightless(ast) ==
  CASE ast._tag = "TypeAlias" -> getWeight(ast.type)
    [] ast._tag = "Tuple" -> Len(ast.elements) + (IF isSome(ast.rest) THEN 1 ELSE 0)
    [] ast._tag = "Union" -> SumSeq([i \in DOMAIN ast.members |-> getWeight(ast.members[i])])
    [] ast._tag = "Lazy" -> LazyWeight
    [] OTHER -> 0

getWeight(ast) ==
  CASE ast._tag = "TypeAlias" -> getWeight(ast.type)
    [] ast._tag = "Tuple" -> Len(ast.elements) + (IF isSome(ast.rest) THEN 1 ELSE 0)
    [] ast._tag = "Struct" -> Len(ast.fields) + Len(ast.indexSignatures)
    [] ast._tag = "Union" -> SumSeq([i \in DOMAIN ast.members |-> getWeight(ast.members[i])])
    [] ast._tag = "Lazy" -> LazyWeight
    [] OTHER -> 0

\* Variant: the order by weight is not reversed.
sortByWeightDesc_asc(xs) ==
  sort([i \in DOMAIN xs |-> getWeight(xs[i])], xs)

\* Variant: a sort that does not keep the given order of equal weights.
sortByWeightDesc_unstable(xs) ==
  sort([i \in DOMAIN xs |-> 0 - getWeight(xs[Len(xs) + 1 - i])],
       [i \in DOMAIN xs |-> xs[Len(xs) + 1 - i]])

\* Order.reverse of the order by weight: the keys are the negated weights.
sortByWeightDesc(xs) ==
  sort([i \in DOMAIN xs |-> 0 - getWeight(xs[i])], xs)

\* Variant: nested unions are not opened up.
unionCandidates_nested(candidates) == uniq(candidates)

\* The flattened, de-duplicated candidates (the constant uniq of union()).
unionCandidates(candidates) ==
  uniq(flatten([i \in DOMAIN candidates |->
                  IF isUnion(candidates[i]) THEN candidates[i].members ELSE <<candidates[i]>>]))

\* Variant: a single remaining candidate is wrapped in a Union node.
union_wrapsOne(candidates, annotations) ==
  LET u == unionCandidates(candidates)
  IN IF Len(u) = 0 THEN neverKeyword(annotations)
     ELSE [_tag |-> "Union", members |-> sortByWeightDesc(u), annotations |-> annotations]

union(candidates, annotations) ==
  LET u == unionCandidates(candidates)
  IN CASE Len(u) = 0 -> neverKeyword(annotations)
       [] Len(u) = 1 -> u[1]
       [] OTHER -> [_tag |-> "Union", members |-> sortByWeightDesc(u),
                    annotations |-> annotations]

(***************************************************************************)
(* What a call gives back: the value it returns or the error it throws.    *)
(***************************************************************************)
Return(v) == [_tag |-> "Return", value |-> v]
isReturn(r) == r._tag = "Return"

(***************************************************************************)
(* Tuple extension.                                                        *)
(***************************************************************************)
RestAfterRest == "A rest element cannot follow another rest element. ts(1265)"
RequiredAfterOptional == "A required element cannot follow an optional element. ts(1257)"
OptionalAfterRest == "An optional element cannot follow a rest element. ts(1266)"

\* Variant: the existing rest is not looked at.
appendRestElement_unchecked(ast, restElement, annotations) ==
  Return(tuple(ast.elements, some(<<restElement>>), ast.isReadonly, annotations, FALSE))

appendRestElement(ast, restElement, annotations) ==
  IF isSome(ast.rest)
  THEN Throw(RestAfterRest)
  ELSE Return(tuple(ast.elements, some(<<restElement>>), ast.isReadonly, annotations, FALSE))

\* Variant: a required element is accepted after an optional one.
appendElement_anyOrder(ast, newElement, annotations) ==
  IF ~isSome(ast.rest)
  THEN Return(tuple(Append(ast.elements, newElement), none, ast.isReadonly,
                    annotations, FALSE))
  ELSE IF newElement.isOptional
       THEN Throw(OptionalAfterRest)
       ELSE Return(tuple(ast.elements, some(Append(ast.rest.value, newElement.type)),
                         ast.isReadonly, annotations, FALSE))

appendElement(ast, newElement, annotations) ==
  IF (\E i \in DOMAIN ast.elements : ast.elements[i].isOptional) /\ ~newElement.isOptional
  THEN Throw(RequiredAfterOptional)
  ELSE IF ~isSome(ast.rest)
       THEN Return(tuple(Append(ast.elements, newElement), none, ast.isReadonly,
                         annotations, FALSE))
       ELSE IF newElement.isOptional
            THEN Throw(OptionalAfterRest)
            ELSE Return(tuple(ast.elements, some(Append(ast.rest.value, newElement.type)),
                              ast.isReadonly, annotations, FALSE))

(***************************************************************************)
(* partial.                                                                *)
(***************************************************************************)
\* Variant: the fields keep their own isOptional.
partialStruct_asIs(ast) ==
  struct([i \in DOMAIN ast.fields |->
            field(ast.fields[i].key, ast.fields[i].value, ast.fields[i].isOptional,
                  ast.fields[i].isReadonly, ast.fields[i].annotations)],
         ast.indexSignatures, NoAnnotations, FALSE)

\* The Struct case of partial.
partialStruct(ast) ==
  struct([i \in DOMAIN ast.fields |->
            field(ast.fields[i].key, ast.fields[i].value, TRUE,
                  ast.fields[i].isReadonly, ast.fields[i].annotations)],
         ast.indexSignatures, NoAnnotations, FALSE)

\* The Tuple case of partial.
partialTuple(ast) ==
  tuple([i \in DOMAIN ast.elements |-> element(ast.elements[i].type, TRUE, NoAnnotations)],
        IF isSome(ast.rest)
        THEN some(<<union(ast.rest.value \o <<undefinedKeyword(NoAnnotations)>>, NoAnnotations)>>)
        ELSE none,
        ast.isReadonly, NoAnnotations, FALSE)

\* A Lazy node's f is the chain of closures around a named producer: <<name>>
\* is the producer itself, <<"partial">> \o f is the closure () => partial(f()).
RECURSIVE partial(_)
partial(ast) ==
  CASE ast._tag = "TypeAlias" -> partial(ast.type)
    [] ast._tag = "Tuple" -> partialTuple(ast)
    [] ast._tag = "Struct" -> partialStruct(ast)
    [] ast._tag = "Union" ->
         union([i \in DOMAIN ast.members |-> partial(ast.members[i])], NoAnnotations)
    [] ast._tag = "Lazy" -> lazy(<<"partial">> \o ast.f, NoAnnotations)
    [] ast._tag = "Refinement" -> partial(ast.from)
    [] OTHER -> ast

(***************************************************************************)
(* Lazy producers: the AST a named producer returns.  Category refers to   *)
(* itself in the type of its subcategories.                                *)
(***************************************************************************)
LazyProducers ==
  [Category |-> struct(<<field(Str("name"), string, FALSE, TRUE, NoAnnotations),
                         field(Str("a"), number, FALSE, TRUE, NoAnnotations),
                         field(Str("subcategories"),
                               tuple(<<>>, some(<<lazy(<<"Category">>, NoAnnotations)>>), TRUE,
                                     NoAnnotations, FALSE),
                               FALSE, TRUE, NoAnnotations)>>,
                       <<>>, NoAnnotations, FALSE)]

Producers == DOMAIN LazyProducers

\* The named producer a call of ast.f() ends up invoking.
producerOf(ast) == ast.f[Len(ast.f)]

\* ast.f(): the AST the call returns.
RECURSIVE force(_)
force(ast) ==
  IF Head(ast.f) = "partial" THEN partial(force(lazy(Tail(ast.f), NoAnnotations)))
  ELSE LazyProducers[ast.f[1]]

(***************************************************************************)
(* keyof.                                                                  *)
(***************************************************************************)
getPropertyKeyAST(key) ==
  IF key.type = "symbol" THEN uniqueSymbol(key, NoAnnotations)
  ELSE literalType(key, NoAnnotations)

\* Variant: a string index signature covers string keys only.
getIndexSignaturesKeys_ownKind(indexSignatures) ==
  LET has(k) == \E i \in DOMAIN indexSignatures : indexSignatures[i].key = k
  IN [string |-> has("string"), number |-> has("number"), symbol |-> has("symbol")]

getIndexSignaturesKeys(indexSignatures) ==
  LET has(k) == \E i \in DOMAIN indexSignatures : indexSignatures[i].key = k
  IN [string |-> has("string"),
      number |-> has("number") \/ has("string"),
      symbol |-> has("symbol")]

getIndexSignatureAST(is) ==
  IF is.key = "symbol" THEN symbol
  ELSE IF is.key = "number" THEN number
  ELSE union(<<string, number>>, NoAnnotations)

CannotKeyof == "cannot keyof on this AST"

RECURSIVE intersectAll(_, _)
intersectAll(out, others) ==
  IF others = <<>> THEN out
  ELSE intersectAll(intersection(others[1], out), Tail(others))

\* Variant: only the first member is asked.
keyofUnion_firstMember(memberKeys) == memberKeys[1]

\* The Union case of keyof, given keyof of each member in member order.
keyofUnion(memberKeys) == intersectAll(memberKeys[1], Tail(memberKeys))

RECURSIVE keyof(_)
keyof(ast) ==
  CASE ast._tag = "TypeAlias" -> keyof(ast.type)
    [] ast._tag \in {"NeverKeyword", "AnyKeyword"} -> Return(<<string, number, symbol>>)
    [] ast._tag \in {"UnknownKeyword", "NumberKeyword", "BooleanKeyword", "BigIntKeyword",
                     "SymbolKeyword", "UndefinedKeyword", "UniqueSymbol", "VoidKeyword",
                     "ObjectKeyword", "Enums"} -> Return(<<never>>)
    [] ast._tag = "Struct" ->
         LET keys == getIndexSignaturesKeys(ast.indexSignatures)
             fields == SelectSeq(ast.fields, LAMBDA f : keys[f.key.type] = FALSE)
         IN Return([i \in DOMAIN fields |-> getPropertyKeyAST(fields[i].key)]
                   \o [i \in DOMAIN ast.indexSignatures |->
                         getIndexSignatureAST(ast.indexSignatures[i])])
    [] ast._tag = "Union" ->
         LET ks == [i \in DOMAIN ast.members |-> keyof(ast.members[i])]
         IN IF \E i \in DOMAIN ks : isError(ks[i])
            THEN Throw(CannotKeyof)
            ELSE Return(keyofUnion([i \in DOMAIN ks |-> ks[i].value]))
    [] ast._tag = "Lazy" -> keyof(force(ast))
    [] ast._tag = "Refinement" -> keyof(ast.from)
    [] OTHER -> Throw(CannotKeyof)

(***************************************************************************)
(* propertyKeys and getFields.                                             *)
(***************************************************************************)
RECURSIVE propertyKeys(_)
propertyKeys(ast) ==
  CASE ast._tag = "TypeAlias" -> propertyKeys(ast.type)
    [] ast._tag = "Tuple" -> [i \in DOMAIN ast.elements |-> Str(ToString(i - 1))]
    [] ast._tag = "Struct" -> [i \in DOMAIN ast.fields |-> ast.fields[i].key]
    [] ast._tag = "Union" ->
         intersectAll(propertyKeys(ast.members[1]),
                      [i \in 1..(Len(ast.members) - 1) |-> propertyKeys(ast.members[i + 1])])
    [] ast._tag = "Lazy" -> propertyKeys(force(ast))
    [] OTHER -> <<>>

\* The Union case of getFields: one field per property key of the union, its
\* value the union of the values the members' fields of that key have.
getFieldsUnion(fields, keys) ==
  [i \in DOMAIN keys |->
     LET same == SelectSeq(fields, LAMBDA f : f.key = keys[i])
     IN field(keys[i],
              union([j \in DOMAIN same |-> same[j].value], NoAnnotations),
              \E j \in DOMAIN same : same[j].isOptional,
              \E j \in DOMAIN same : same[j].isReadonly,
              NoAnnotations)]

RECURSIVE getFields(_)
getFields(ast) ==
  CASE ast._tag = "TypeAlias" -> getFields(ast.type)
    [] ast._tag = "Tuple" ->
         [i \in DOMAIN ast.elements |->
            field(Num(i - 1), ast.elements[i].type, ast.elements[i].isOptional,
                  ast.isReadonly, NoAnnotations)]
    [] ast._tag = "Struct" -> ast.fields
    [] ast._tag = "Union" ->
         getFieldsUnion(flatten([i \in DOMAIN ast.members |-> getFields(ast.members[i])]),
                        propertyKeys(ast))
    [] ast._tag = "Lazy" -> getFields(force(ast))
    [] ast._tag = "Refinement" -> getFields(ast.from)
    [] OTHER -> <<>>

(***************************************************************************)
(* The calls of ast.f() a traversal makes: how often the producer p is     *)
(* invoked while keyof, propertyKeys or getFields runs on ast.             *)
(***************************************************************************)
\* One visit of a Lazy node: ast.f() is called, which invokes its producer.
visit(ast, p) == IF producerOf(ast) = p THEN 1 ELSE 0

RECURSIVE keyofCalls(_, _)
keyofCalls(ast, p) ==
  CASE ast._tag = "TypeAlias" -> keyofCalls(ast.type, p)
    [] ast._tag = "Union" ->
         \* the members are asked in order, and a throw ends the loop
         LET failing == {i \in DOMAIN ast.members : isError(keyof(ast.members[i]))}
             last == IF failing = {} THEN Len(ast.members)
                     ELSE CHOOSE i \in failing : \A j \in failing : i <= j
         IN SumSeq([i \in 1..last |-> keyofCalls(ast.members[i], p)])
    [] ast._tag = "Lazy" -> visit(ast, p) + keyofCalls(force(ast), p)
    [] ast._tag = "Refinement" -> keyofCalls(ast.from, p)
    [] OTHER -> 0

RECURSIVE propertyKeysCalls(_, _)
propertyKeysCalls(ast, p) ==
  CASE ast._tag = "TypeAlias" -> propertyKeysCalls(ast.type, p)
    [] ast._tag = "Union" ->
         SumSeq([i \in DOMAIN ast.members |-> propertyKeysCalls(ast.members[i], p)])
    [] ast._tag = "Lazy" -> visit(ast, p) + propertyKeysCalls(force(ast), p)
    [] OTHER -> 0

RECURSIVE getFieldsCalls(_, _)
getFieldsCalls(ast, p) ==
  CASE ast._tag = "TypeAlias" -> getFieldsCalls(ast.type, p)
    [] ast._tag = "Union" ->
         SumSeq([i \in DOMAIN ast.members |-> getFieldsCalls(ast.members[i], p)])
         + propertyKeysCalls(ast, p)
    [] ast._tag = "Lazy" -> visit(ast, p) + getFieldsCalls(force(ast), p)
    [] ast._tag = "Refinement" -> getFieldsCalls(ast.from, p)
    [] OTHER -> 0
(***************************************************************************)
(* record.                                                                 *)
(***************************************************************************)
CannotHandleRefinements == "cannot handle refinements in record"

DoesNotSatisfyConstraint(tag) ==
  <<"Type", tag, "does not satisfy the constraint 'string | number | symbol'. ts(2344)">>

\* The two arrays record() fills while it walks the key AST.
RecordAcc(fields, indexSignatures) ==
  [_tag |-> "RecordAcc", fields |-> fields, indexSignatures |-> indexSignatures]

\* The LiteralType case of go: a string or number literal becomes a field,
\* any other literal leaves both arrays as they are.
recordLiteral(keyAst, value, isReadonly, acc) ==
  IF keyAst.literal.type \in {"string", "number"}
  THEN RecordAcc(Append(acc.fields, field(keyAst.literal, value, FALSE, isReadonly, NoAnnotations)),
                 acc.indexSignatures)
  ELSE acc

RECURSIVE recordGo(_, _, _, _)
RECURSIVE recordMembers(_, _, _, _)
\* go(key): the arrays after the walk of keyAst, or the error thrown.
recordGo(keyAst, value, isReadonly, acc) ==
  CASE keyAst._tag = "NeverKeyword" -> acc
    [] keyAst._tag \in {"StringKeyword", "NumberKeyword", "SymbolKeyword"} ->
         RecordAcc(acc.fields,
                   Append(acc.indexSignatures,
                          indexSignature(CASE keyAst._tag = "StringKeyword" -> "string"
                                           [] keyAst._tag = "NumberKeyword" -> "number"
                                           [] OTHER -> "symbol",
                                         value, isReadonly, NoAnnotations)))
    [] keyAst._tag = "LiteralType" -> recordLiteral(keyAst, value, isReadonly, acc)
    [] keyAst._tag = "UniqueSymbol" ->
         RecordAcc(Append(acc.fields, field(keyAst.symbol, value, FALSE, isReadonly, NoAnnotations)),
                   acc.indexSignatures)
    [] keyAst._tag = "Union" -> recordMembers(keyAst.members, value, isReadonly, acc)
    [] keyAst._tag = "Refinement" -> Throw(CannotHandleRefinements)
    [] OTHER -> Throw(DoesNotSatisfyConstraint(keyAst._tag))

\* key.members.forEach(go): member by member, the first throw ends the walk.
recordMembers(members, value, isReadonly, acc) ==
  IF members = <<>> THEN acc
  ELSE LET r == recordGo(members[1], value, isReadonly, acc)
       IN IF isError(r) THEN r ELSE recordMembers(Tail(members), value, isReadonly, r)

record(keyAst, value, isReadonly) ==
  LET r == recordGo(keyAst, value, isReadonly, RecordAcc(<<>>, <<>>))
  IN IF isError(r) THEN r
     ELSE Return(struct(r.fields, r.indexSignatures, NoAnnotations, FALSE))
(***************************************************************************)
(* ParseResult: the error model and the two-sided result.                  *)
(***************************************************************************)
parseError(errors) == [_tag |-> "ParseError", errors |-> errors]

type(expected, actual, message) ==
  [_tag |-> "Type", expected |-> expected, actual |-> actual, message |-> message]

forbidden == [_tag |-> "Forbidden"]

index(i, errors) == [_tag |-> "Index", index |-> i, errors |-> errors]

key(k, errors) == [_tag |-> "Key", key |-> k, errors |-> errors]

missing == [_tag |-> "Missing"]

unexpected(actual) == [_tag |-> "Unexpected", actual |-> actual]

unionMember(errors) == [_tag |-> "UnionMember", errors |-> errors]

success(a) == [_tag |-> "Right", right |-> a]

fail(error) == [_tag |-> "Left", left |-> error]

\* Variant: the entry is not put into the ParseError.
failure_noEntry(e) == fail(parseError(<<>>))

failure(e) == fail(parseError(<<e>>))

failures(es) == [_tag |-> "Left", left |-> parseError(es)]

isRight(r) == r._tag = "Right"
isLeft(r) == r._tag = "Left"

(***************************************************************************)
(* The decode/encode engine (spec.md 4.2).  The engine's source is not     *)
(* among the source files; its tests are (src/unnamed/part_000).           *)
(***************************************************************************)
\* The insertion order of the own keys of the input objects of the model.
KeyOrder == <<"a", "b", "c", "d", "category", "tag">>

ownKeys(input) == SelectSeq(KeyOrder, LAMBDA k : k \in DOMAIN input.val)

\* The expected shape reported when a struct is given something that is not an object.
GenericObject == objectKeyword({"a generic object"})

isObject(input) == input.type = "object"

fieldKeys(ast) == {ast.fields[i].key.val : i \in DOMAIN ast.fields}

\* The discriminants of a union member: its required literal fields, as
\* pairs of the field's key and its literal AST, in stored order.
getLiterals(member) ==
  IF isStruct(member)
  THEN LET tags == SelectSeq(member.fields,
                             LAMBDA f : f.value._tag = "LiteralType" /\ ~f.isOptional)
       IN [i \in DOMAIN tags |-> [key |-> tags[i].key, literal |-> tags[i].value]]
  ELSE <<>>

\* The buckets of the search tree: one per discriminant key and literal value.
\* A member goes to the bucket of its first discriminant whose bucket is new;
\* if all its buckets exist already it joins the bucket of its last discriminant.
RECURSIVE register(_, _, _)
register(buckets, member, tags) ==
  LET hit == {i \in DOMAIN buckets : /\ buckets[i].key = tags[1].key
                                      /\ buckets[i].literal.literal = tags[1].literal.literal}
  IN IF hit = {}
     THEN Append(buckets, [key |-> tags[1].key, literal |-> tags[1].literal,
                           members |-> <<member>>])
     ELSE IF Len(tags) > 1 THEN register(buckets, member, Tail(tags))
     ELSE [i \in DOMAIN buckets |->
             IF i \in hit THEN [buckets[i] EXCEPT !.members = Append(@, member)]
             ELSE buckets[i]]

RECURSIVE getSearchTree(_, _)
getSearchTree(members, tree) ==
  IF members = <<>> THEN tree
  ELSE LET tags == getLiterals(members[1])
       IN IF tags = <<>>
          THEN getSearchTree(Tail(members),
                             [tree EXCEPT !.otherwise = Append(@, members[1])])
          ELSE getSearchTree(Tail(members),
                             [tree EXCEPT !.buckets = register(@, members[1], tags)])

\* Variant: a discriminant key is looked up once per bucket.
searchKeys_perBucket(buckets) == [i \in DOMAIN buckets |-> buckets[i].key]

\* The discriminant keys of the search tree, each once, in order of appearance.
searchKeys(buckets) == uniq([i \in DOMAIN buckets |-> buckets[i].key])

\* What the discriminant k says about the input: the members to try, or an error.
lookup(buckets, k, input) ==
  LET ofKey == SelectSeq(buckets, LAMBDA b : b.key = k)
      hit == SelectSeq(ofKey, LAMBDA b : k.val \in DOMAIN input.val /\
                                         b.literal.literal = input.val[k.val])
  IN IF k.val \notin DOMAIN input.val
     THEN [candidates |-> <<>>, es |-> <<key(k, <<missing>>)>>]
     ELSE IF hit = <<>>
     THEN [candidates |-> <<>>,
           es |-> <<key(k, <<type(union([i \in DOMAIN ofKey |-> ofKey[i].literal],
                                        NoAnnotations),
                                  input.val[k.val], none)>>)>>]
     ELSE [candidates |-> hit[1].members, es |-> <<>>]

\* The members to try on the input, and the errors the discriminants gave.
search(members, input) ==
  LET tree == getSearchTree(members, [buckets |-> <<>>, otherwise |-> <<>>])
      keys == searchKeys(tree.buckets)
  IN IF keys = <<>> THEN [candidates |-> tree.otherwise, es |-> <<>>]
     ELSE IF ~isObject(input)
     THEN [candidates |-> tree.otherwise, es |-> <<type(GenericObject, input, none)>>]
     ELSE LET found == [i \in DOMAIN keys |-> lookup(tree.buckets, keys[i], input)]
          IN [candidates |-> flatten([i \in DOMAIN found |-> found[i].candidates])
                             \o tree.otherwise,
              es |-> flatten([i \in DOMAIN found |-> found[i].es])]

RECURSIVE firstRight(_)
firstRight(outcomes) ==
  IF isRight(outcomes[1]) THEN outcomes[1] ELSE firstRight(Tail(outcomes))

RECURSIVE mergeRights(_, _)
mergeRights(outcomes, out) ==
  IF outcomes = <<>> THEN out
  ELSE IF isRight(outcomes[1]) /\ isObject(outcomes[1].right) /\ isObject(out.right)
       THEN mergeRights(Tail(outcomes),
                        success(Obj(out.right.val @@ outcomes[1].right.val)))
       ELSE mergeRights(Tail(outcomes), out)

\* Variant: the outputs of all accepting candidates are merged.
resolveUnion_merged(outcomes) == mergeRights(outcomes, firstRight(outcomes))

\* The result of a union of which at least one candidate accepted the input.
resolveUnion(outcomes) == firstRight(outcomes)

RECURSIVE go(_, _, _, _)
RECURSIVE parseFields(_, _, _, _, _, _)
RECURSIVE parseRest(_, _, _, _, _, _, _)

\* The fields of a struct, in stored order; acc is [out, es].
parseFields(fields, input, options, isDecoding, out, es) ==
  IF fields = <<>> \/ (es # <<>> /\ options.errors = "first")
  THEN [out |-> out, es |-> es]
  ELSE LET f == fields[1]
           name == f.key.val
       IN IF name \notin DOMAIN input.val
          THEN IF f.isOptional
               THEN parseFields(Tail(fields), input, options, isDecoding, out, es)
               ELSE parseFields(Tail(fields), input, options, isDecoding, out,
                                Append(es, key(f.key, <<missing>>)))
          ELSE LET r == go(f.value, input.val[name], options, isDecoding)
               IN IF isRight(r)
                  THEN parseFields(Tail(fields), input, options, isDecoding,
                                   out @@ (name :> r.right), es)
                  ELSE parseFields(Tail(fields), input, options, isDecoding, out,
                                   Append(es, key(f.key, r.left.errors)))

\* The own keys of the input that no field declares, in insertion order.
parseRest(ast, names, input, options, isDecoding, out, es) ==
  IF names = <<>> \/ (es # <<>> /\ options.errors = "first")
  THEN [out |-> out, es |-> es]
  ELSE LET name == names[1]
           sigs == SelectSeq(ast.indexSignatures, LAMBDA is : is.key = "string")
       IN IF sigs # <<>>
          THEN LET r == go(sigs[1].value, input.val[name], options, isDecoding)
               IN IF isRight(r)
                  THEN parseRest(ast, Tail(names), input, options, isDecoding,
                                 out @@ (name :> r.right), es)
                  ELSE parseRest(ast, Tail(names), input, options, isDecoding, out,
                                 Append(es, key(Str(name), r.left.errors)))
          ELSE IF ~ast.allowUnexpected /\ options.onExcessProperty = "error"
               THEN parseRest(ast, Tail(names), input, options, isDecoding, out,
                              Append(es, key(Str(name), <<unexpected(input.val[name])>>)))
               ELSE parseRest(ast, Tail(names), input, options, isDecoding, out, es)

go(ast, input, options, isDecoding) ==
  CASE ast._tag = "TypeAlias" -> go(ast.type, input, options, isDecoding)
    [] ast._tag = "Lazy" -> go(force(ast), input, options, isDecoding)
    [] ast._tag = "NeverKeyword" -> failure(type(ast, input, none))
    [] ast._tag \in {"UnknownKeyword", "AnyKeyword"} -> success(input)
    [] ast._tag = "StringKeyword" ->
         IF input.type = "string" THEN success(input) ELSE failure(type(ast, input, none))
    [] ast._tag = "NumberKeyword" ->
         IF input.type = "number" THEN success(input) ELSE failure(type(ast, input, none))
    [] ast._tag = "LiteralType" ->
         IF input = ast.literal THEN success(input) ELSE failure(type(ast, input, none))
    [] ast._tag = "Struct" ->
         IF ~isObject(input) THEN failure(type(GenericObject, input, none))
         ELSE LET fs == parseFields(ast.fields, input, options, isDecoding, <<>>, <<>>)
                  others == SelectSeq(ownKeys(input), LAMBDA k : k \notin fieldKeys(ast))
                  all == parseRest(ast, others, input, options, isDecoding, fs.out, fs.es)
              IN IF all.es = <<>> THEN success(Obj(all.out)) ELSE failures(all.es)
    [] ast._tag = "Union" ->
         LET found == search(ast.members, input)
             outcomes == [i \in DOMAIN found.candidates |->
                            go(found.candidates[i], input, options, isDecoding)]
             es == found.es \o [i \in DOMAIN outcomes |->
                                  unionMember(outcomes[i].left.errors)]
         IN IF \E i \in DOMAIN outcomes : isRight(outcomes[i])
            THEN resolveUnion(outcomes)
            ELSE IF es = <<>> THEN failure(type(never, input, none))
            ELSE failures(es)
    [] OTHER -> failure(type(ast, input, none))

decode(ast, input, options) == go(ast, input, options, TRUE)
encode(ast, input, options) == go(ast, input, options, FALSE)

(***************************************************************************)
(* The inputs the clients of the model draw from.                          *)
(***************************************************************************)
SeqsUpTo(S, n) == UNION {[1..k -> S] : k \in 0..n}

Sym(s) == [type |-> "symbol", val |-> s]

\* S.struct / S.optional of the schema layer: readonly fields, in the given order.
required(name, value) == field(Str(name), value, FALSE, TRUE, NoAnnotations)
optional(name, value) == field(Str(name), value, TRUE, TRUE, NoAnnotations)
S_struct(fields) == struct(fields, <<>>, NoAnnotations, FALSE)
literal(v) == literalType(v, NoAnnotations)

a == S_struct(<<required("a", string)>>)
ab == S_struct(<<required("a", string), required("b", number)>>)
ac == S_struct(<<required("a", string), required("c", number)>>)
abOptional == S_struct(<<required("a", string), optional("b", number)>>)
acOptional == S_struct(<<required("a", string), optional("c", number)>>)
a1c == S_struct(<<required("a", literal(Num(1))), required("c", string)>>)
b2d == S_struct(<<required("b", literal(Num(2))), required("d", number)>>)
tagged(t) == S_struct(<<required("category", literal(Str("catA"))),
                        required("tag", literal(Str(t)))>>)

Category == lazy(<<"Category">>, NoAnnotations)
stringNumberTuple ==
  tuple(<<element(string, FALSE, NoAnnotations)>>, some(<<number>>), TRUE,
        NoAnnotations, FALSE)

\* The candidates handed to union(): keywords, structs, a tuple, a lazy node,
\* a type alias of a union and unions built by union() before.
CandidatePool ==
  {string, number, stringKeyword(IdAnnotation), a, ab, stringNumberTuple, Category,
   typeAlias(<<>>, union(<<a, ab>>, NoAnnotations), NoAnnotations),
   union(<<string, number>>, NoAnnotations), union(<<a, Category>>, NoAnnotations)}

FieldPool ==
  {required("a", never), required("b", literal(Num(1))), optional("c", booleanKeyword(NoAnnotations)),
   required("d", string), required("e", unknownKeyword(NoAnnotations)), required("f", a),
   required("g", typeAlias(<<>>, literal(Str("g")), NoAnnotations))}

IndexSignaturePool ==
  {indexSignature("string", a, TRUE, NoAnnotations),
   indexSignature("number", string, TRUE, NoAnnotations),
   indexSignature("symbol", literal(Str("s")), TRUE, NoAnnotations)}

ElementPool ==
  {element(string, FALSE, NoAnnotations), element(number, TRUE, NoAnnotations)}

RestPool == {string, booleanKeyword(NoAnnotations)}

\* The ASTs keyof is asked about, and of which its unions are made.
KeyofMemberPool ==
  {ab, ac, abOptional,
   struct(<<required("a", string)>>, <<indexSignature("string", number, TRUE, NoAnnotations)>>,
          NoAnnotations, FALSE),
   struct(<<required("a", string), field(Num(0), string, FALSE, TRUE, NoAnnotations),
            field(Sym("s"), string, FALSE, TRUE, NoAnnotations)>>,
          <<indexSignature("number", number, TRUE, NoAnnotations)>>, NoAnnotations, FALSE),
   struct(<<field(Sym("s"), string, FALSE, TRUE, NoAnnotations), required("b", number)>>,
          <<>>, NoAnnotations, FALSE),
   never, number, string, Category,
   refinement(ab, "nonEmpty", "meta", NoAnnotations),
   typeAlias(<<>>, ac, NoAnnotations),
   partial(Category),
   struct(<<required("a", string), field(Num(0), string, FALSE, TRUE, NoAnnotations),
            field(Sym("s"), string, FALSE, TRUE, NoAnnotations)>>,
          <<indexSignature("string", number, TRUE, NoAnnotations)>>, NoAnnotations, FALSE),
   struct(<<required("a", string), field(Sym("s"), string, FALSE, TRUE, NoAnnotations)>>,
          <<indexSignature("symbol", number, TRUE, NoAnnotations),
            indexSignature("number", number, TRUE, NoAnnotations)>>, NoAnnotations, FALSE)}

KeyofPool ==
  KeyofMemberPool \cup
  {union(cs, NoAnnotations) : cs \in SeqsUpTo(KeyofMemberPool, MaxCandidates)}

\* The ASTs propertyKeys, getFields and partial are asked about: structs and
\* tuples with structs and tuples inside, a lazy node, wrappers, and unions.
AstMemberPool ==
  {string, ab,
   S_struct(<<required("f", a), optional("g", string)>>),
   S_struct(<<required("t", stringNumberTuple)>>),
   struct(<<required("a", string)>>, <<indexSignature("string", a, TRUE, NoAnnotations)>>,
          NoAnnotations, FALSE),
   stringNumberTuple,
   tuple(<<element(a, FALSE, NoAnnotations)>>, some(<<number>>), TRUE, NoAnnotations, FALSE),
   tuple(<<>>, some(<<string, number>>), FALSE, NoAnnotations, FALSE),
   tuple(<<element(string, FALSE, NoAnnotations), element(number, TRUE, NoAnnotations)>>,
         none, TRUE, NoAnnotations, FALSE),
   Category, partial(Category),
   typeAlias(<<>>, ab, NoAnnotations),
   refinement(ac, "nonEmpty", "meta", NoAnnotations)}

AstPool ==
  AstMemberPool \cup
  {union(cs, NoAnnotations) : cs \in SeqsUpTo(AstMemberPool, MaxCandidates)}

\* NonEmptyReadonlyArray<A>: the type of every errors parameter of ParseResult.
NonEmptySeqs(S, n) == UNION {[1..k -> S] : k \in 1..n}

\* The entries handed to failure() and failures(): plain entries, and Key,
\* Index and UnionMember entries made by their constructors.
PlainErrorsPool == {missing, type("string", Num(1), none)}

ParseErrorsPool ==
  PlainErrorsPool
  \cup {key(Str("a"), es) : es \in NonEmptySeqs(PlainErrorsPool, MaxInner)}
  \cup {index(0, <<missing>>), unionMember(<<unexpected(Num(1))>>),
        unionMember(<<key(Str("a"), <<missing>>), forbidden>>)}

\* The key ASTs record() is asked about: every kind of key, the literals that
\* are not keys, a refinement, nodes that are no keys at all, and unions of these.
RecordKeyMemberPool ==
  {string, number, symbol, never, literal(Str("a")), literal(Num(1)),
   literal(Bool(TRUE)), literal(Null), uniqueSymbol(Sym("s"), NoAnnotations),
   refinement(string, "nonEmpty", "meta", NoAnnotations), booleanKeyword(NoAnnotations), ab}

RecordKeyPool ==
  RecordKeyMemberPool \cup
  {union(cs, NoAnnotations) : cs \in SeqsUpTo(RecordKeyMemberPool, MaxCandidates)}

\* The member lists handed to S.union() by the clients of the engine.
SchemaPool ==
  {<<>>, <<string>>, <<a1c, b2d>>, <<tagged("a"), tagged("b"), tagged("c")>>,
   <<a, ab>>, <<ab, a>>, <<abOptional, acOptional>>, <<acOptional, abOptional>>,
   <<ab, ac>>, <<ac, a>>, <<string, a>>}

InputPool ==
  {Null, Num(1), Str("a"), Obj(<<>>),
   Obj([a |-> Null]), Obj([b |-> Num(3)]), Obj([a |-> Num(1), c |-> Str("c")]),
   Obj([a |-> Str("a")]), Obj([a |-> Str("a"), b |-> Num(1)]),
   Obj([a |-> Str("a"), c |-> Num(1)]),
   Obj([a |-> Str("a"), b |-> Num(1), c |-> Num(1)]),
   Obj([category |-> Str("catA"), tag |-> Str("b")]), Obj([tag |-> Str("d")])}

OptionsPool == [onExcessProperty : {"ignore", "error"}, errors : {"first", "all"}]

(***************************************************************************)
(* The state machine: a client that makes one call at a time.              *)
(***************************************************************************)
NoArgs == [none |-> TRUE]

Init ==
  /\ op = "none"
  /\ args = NoArgs
  /\ result = none
  /\ tup = tuple(<<>>, none, TRUE, NoAnnotations, FALSE)
  /\ calls = [p \in Producers |-> 0]

CallUnion ==
  /\ op = "none"
  /\ \E candidates \in SeqsUpTo(CandidatePool, MaxCandidates),
        annotations \in {NoAnnotations, IdAnnotation} :
       /\ op' = "union"
       /\ args' = [candidates |-> candidates, annotations |-> annotations]
       /\ result' = Return(union(candidates, annotations))
  /\ UNCHANGED <<tup, calls>>

CallStruct ==
  /\ op = "none"
  /\ \E fields \in SeqsUpTo(FieldPool, MaxFields),
        indexSignatures \in SeqsUpTo(IndexSignaturePool, MaxIndexSignatures) :
       /\ op' = "struct"
       /\ args' = [fields |-> fields, indexSignatures |-> indexSignatures]
       /\ result' = Return(struct(fields, indexSignatures, NoAnnotations, FALSE))
  /\ UNCHANGED <<tup, calls>>

CallAppendRestElement ==
  /\ op = "none"
  /\ \E restElement \in RestPool :
       LET r == appendRestElement(tup, restElement, NoAnnotations)
       IN /\ op' = "appendRestElement"
          /\ args' = [ast |-> tup, restElement |-> restElement]
          /\ result' = r
          /\ tup' = IF isReturn(r) THEN r.value ELSE tup
  /\ UNCHANGED calls

CallAppendElement ==
  /\ op = "none"
  /\ ~isSome(tup.rest) => Len(tup.elements) < MaxElements
  /\ isSome(tup.rest) => Len(tup.rest.value) < MaxRest
  /\ \E newElement \in ElementPool :
       LET r == appendElement(tup, newElement, NoAnnotations)
       IN /\ op' = "appendElement"
          /\ args' = [ast |-> tup, newElement |-> newElement]
          /\ result' = r
          /\ tup' = IF isReturn(r) THEN r.value ELSE tup
  /\ UNCHANGED calls

\* Every ast.f() of the traversal invokes the producer: the count of its
\* invocations grows by the visits the call makes.
CallKeyof ==
  /\ op = "none"
  /\ \E ast \in KeyofPool :
       /\ \A p \in Producers : calls[p] + keyofCalls(ast, p) <= MaxCalls
       /\ op' = "keyof"
       /\ args' = [ast |-> ast]
       /\ result' = keyof(ast)
       /\ calls' = [p \in Producers |-> calls[p] + keyofCalls(ast, p)]
  /\ UNCHANGED tup

CallPropertyKeys ==
  /\ op = "none"
  /\ \E ast \in AstPool :
       /\ \A p \in Producers : calls[p] + propertyKeysCalls(ast, p) <= MaxCalls
       /\ op' = "propertyKeys"
       /\ args' = [ast |-> ast]
       /\ result' = Return(propertyKeys(ast))
       /\ calls' = [p \in Producers |-> calls[p] + propertyKeysCalls(ast, p)]
  /\ UNCHANGED tup

CallGetFields ==
  /\ op = "none"
  /\ \E ast \in AstPool :
       /\ \A p \in Producers : calls[p] + getFieldsCalls(ast, p) <= MaxCalls
       /\ op' = "getFields"
       /\ args' = [ast |-> ast]
       /\ result' = Return(getFields(ast))
       /\ calls' = [p \in Producers |-> calls[p] + getFieldsCalls(ast, p)]
  /\ UNCHANGED tup

\* partial calls no producer: for a Lazy node it returns a new Lazy node.
CallPartial ==
  /\ op = "none"
  /\ \E ast \in AstPool :
       /\ op' = "partial"
       /\ args' = [ast |-> ast]
       /\ result' = Return(partial(ast))
  /\ UNCHANGED <<tup, calls>>

CallRecord ==
  /\ op = "none"
  /\ \E keyAst \in RecordKeyPool, isReadonly \in BOOLEAN :
       /\ op' = "record"
       /\ args' = [key |-> keyAst, value |-> number, isReadonly |-> isReadonly]
       /\ result' = record(keyAst, number, isReadonly)
  /\ UNCHANGED <<tup, calls>>

CallSuccess ==
  /\ op = "none"
  /\ \E v \in InputPool :
       /\ op' = "success"
       /\ args' = [a |-> v]
       /\ result' = success(v)
  /\ UNCHANGED <<tup, calls>>

CallFailure ==
  /\ op = "none"
  /\ \E e \in ParseErrorsPool :
       /\ op' = "failure"
       /\ args' = [e |-> e]
       /\ result' = failure(e)
  /\ UNCHANGED <<tup, calls>>

CallFailures ==
  /\ op = "none"
  /\ \E es \in NonEmptySeqs(ParseErrorsPool, MaxErrors) :
       /\ op' = "failures"
       /\ args' = [es |-> es]
       /\ result' = failures(es)
  /\ UNCHANGED <<tup, calls>>

CallDecode ==
  /\ op = "none"
  /\ \E members \in SchemaPool, input \in InputPool, options \in OptionsPool :
       /\ op' = "decode"
       /\ args' = [members |-> members, ast |-> union(members, NoAnnotations),
                   input |-> input, options |-> options]
       /\ result' = decode(union(members, NoAnnotations), input, options)
  /\ UNCHANGED <<tup, calls>>

CallEncode ==
  /\ op = "none"
  /\ \E members \in SchemaPool, input \in InputPool, options \in OptionsPool :
       /\ op' = "encode"
       /\ args' = [members |-> members, ast |-> union(members, NoAnnotations),
                   input |-> input, options |-> options]
       /\ result' = encode(union(members, NoAnnotations), input, options)
  /\ UNCHANGED <<tup, calls>>

\* The client takes the outcome of its call and is ready for the next one.
Continue ==
  /\ op # "none"
  /\ op' = "none"
  /\ args' = NoArgs
  /\ result' = none
  /\ UNCHANGED <<tup, calls>>

Next ==
  \/ CallUnion
  \/ CallStruct
  \/ CallAppendRestElement
  \/ CallAppendElement
  \/ CallKeyof
  \/ CallPropertyKeys
  \/ CallGetFields
  \/ CallPartial
  \/ CallRecord
  \/ CallSuccess
  \/ CallFailure
  \/ CallFailures
  \/ CallDecode
  \/ CallEncode
  \/ Continue

Spec == Init /\ [][Next]_vars

(***************************************************************************)
(* Properties.                                                             *)
(***************************************************************************)
\* The weight of a node as the specification words it.
RECURSIVE WeightOf(_)
WeightOf(ast) ==
  IF ast._tag = "Tuple" THEN Len(ast.elements) + (IF ast.rest = none THEN 0 ELSE 1)
  ELSE IF ast._tag = "Struct" THEN Len(ast.fields) + Len(ast.indexSignatures)
  ELSE IF ast._tag = "Union"
       THEN SumSeq([i \in DOMAIN ast.members |-> WeightOf(ast.members[i])])
  ELSE IF ast._tag = "Lazy" THEN 10
  ELSE IF ast._tag = "TypeAlias" THEN WeightOf(ast.type)
  ELSE 0

\* The cardinality of a node as the specification words it.
RECURSIVE CardinalityOf(_)
CardinalityOf(ast) ==
  IF ast._tag = "NeverKeyword" THEN 0
  ELSE IF ast._tag \in {"LiteralType", "UndefinedKeyword", "UniqueSymbol"} THEN 1
  ELSE IF ast._tag = "BooleanKeyword" THEN 2
  ELSE IF ast._tag \in {"StringKeyword", "NumberKeyword", "BigIntKeyword", "SymbolKeyword"}
       THEN 3
  ELSE IF ast._tag \in {"UnknownKeyword", "AnyKeyword"} THEN 4
  ELSE IF ast._tag = "TypeAlias" THEN CardinalityOf(ast.type)
  ELSE 5

Elems(xs) == {xs[i] : i \in DOMAIN xs}

\* The candidates of a union() call once nested unions are opened up, as a set.
FlatCandidates(candidates) ==
  UNION {IF candidates[i]._tag = "Union" THEN Elems(candidates[i].members)
         ELSE {candidates[i]} : i \in DOMAIN candidates}

ReturnedUnion == op = "union" /\ isReturn(result) /\ result.value._tag = "Union"

\* C1: whenever union() returns a Union node, its members are stored in
\* non-increasing order of weight.
C1_UnionMembersSortedByWeightDesc ==
  ReturnedUnion =>
    \A i, j \in DOMAIN result.value.members :
      i < j => WeightOf(result.value.members[i]) >= WeightOf(result.value.members[j])

\* A union() call whose candidates came in increasing order of weight and had
\* to be reordered, giving at least three members.
C1_Witness ==
  /\ ReturnedUnion
  /\ Len(result.value.members) >= 3
  /\ \E i, j \in DOMAIN args.candidates :
       i < j /\ WeightOf(args.candidates[i]) < WeightOf(args.candidates[j])
  /\ WeightOf(result.value.members[1]) > WeightOf(result.value.members[3])

\* C2: whenever union() returns a Union node, the node has at least two
\* members, no member is a Union node and no two members are equal.
C2_UnionFlatDistinctAtLeastTwo ==
  ReturnedUnion =>
    /\ Len(result.value.members) >= 2
    /\ \A i \in DOMAIN result.value.members : result.value.members[i]._tag # "Union"
    /\ \A i, j \in DOMAIN result.value.members :
         i # j => result.value.members[i] # result.value.members[j]
    /\ Elems(result.value.members) = FlatCandidates(args.candidates)

\* A union() call that was handed a Union node and a candidate that the Union
\* node already has as a member.
C2_Witness ==
  /\ ReturnedUnion
  /\ \E i, j \in DOMAIN args.candidates :
       /\ i # j
       /\ args.candidates[i]._tag = "Union"
       /\ args.candidates[j] \in Elems(args.candidates[i].members)

\* C3: union() gives a never node when no candidate remains after flattening
\* and de-duplication, and the candidate itself when exactly one remains.
C3_UnionCollapses ==
  (op = "union") =>
    LET distinct == FlatCandidates(args.candidates)
    IN /\ distinct = {} => result = Return(neverKeyword(args.annotations))
       /\ Cardinality(distinct) = 1 => result = Return(CHOOSE c \in distinct : TRUE)

\* A union() call with two equal candidates, which returns that candidate.
C3_Witness ==
  /\ op = "union"
  /\ Len(args.candidates) = 2
  /\ args.candidates[1] = args.candidates[2]
  /\ args.candidates[1]._tag = "Struct"
  /\ result = Return(args.candidates[1])

\* A union() call with no candidates, which returns never.
C3_WitnessEmpty ==
  op = "union" /\ args.candidates = <<>> /\ result.value._tag = "NeverKeyword"

NonDecreasingCardinality(xs) ==
  \A i, j \in DOMAIN xs : i < j => CardinalityOf(xs[i].value) <= CardinalityOf(xs[j].value)

Occurrences(xs, x) == Cardinality({i \in DOMAIN xs : xs[i] = x})

SameBag(xs, ys) ==
  /\ Len(xs) = Len(ys)
  /\ \A i \in DOMAIN xs : Occurrences(xs, xs[i]) = Occurrences(ys, xs[i])

\* C4: struct() stores the fields it was given, and the index signatures it
\* was given, each in non-decreasing order of the cardinality of their value
\* type, whatever the order they were passed in.
C4_StructSortedByCardinalityAsc ==
  (op = "struct") =>
    /\ NonDecreasingCardinality(result.value.fields)
    /\ NonDecreasingCardinality(result.value.indexSignatures)
    /\ SameBag(result.value.fields, args.fields)
    /\ SameBag(result.value.indexSignatures, args.indexSignatures)

\* A struct() call whose fields and whose index signatures were both passed
\* in decreasing order of cardinality.
C4_Witness ==
  /\ op = "struct"
  /\ Len(args.fields) = 2
  /\ CardinalityOf(args.fields[1].value) > CardinalityOf(args.fields[2].value)
  /\ Len(args.indexSignatures) = 2
  /\ CardinalityOf(args.indexSignatures[1].value)
       > CardinalityOf(args.indexSignatures[2].value)
  /\ result.value.fields = <<args.fields[2], args.fields[1]>>

HasOptional(ast) == \E i \in DOMAIN ast.elements : ast.elements[i].isOptional

\* C5: appendRestElement on a tuple with a rest throws; appendElement of a
\* required element on a tuple with an optional element throws; appendElement
\* of an optional element on a tuple with a rest throws.
C5_TupleExtensionFails ==
  /\ (op = "appendRestElement" /\ args.ast.rest # none) => isError(result)
  /\ (op = "appendElement" /\ HasOptional(args.ast) /\ ~args.newElement.isOptional)
       => isError(result)
  /\ (op = "appendElement" /\ args.newElement.isOptional /\ args.ast.rest # none)
       => isError(result)

\* appendRestElement was called on a tuple that had a rest, and threw.
C5_Witness ==
  /\ op = "appendRestElement"
  /\ args.ast.rest # none
  /\ result = Throw(RestAfterRest)
  /\ tup = args.ast

\* appendElement of a required element was called on a tuple with an optional one.
C5_WitnessRequiredAfterOptional ==
  /\ op = "appendElement"
  /\ HasOptional(args.ast) /\ ~args.newElement.isOptional
  /\ result = Throw(RequiredAfterOptional)

\* appendElement of an optional element was called on a tuple with a rest.
C5_WitnessOptionalAfterRest ==
  /\ op = "appendElement"
  /\ args.newElement.isOptional /\ args.ast.rest # none
  /\ result = Throw(OptionalAfterRest)

(***************************************************************************)
(* Properties of the engine.                                               *)
(***************************************************************************)
Parsing == op \in {"decode", "encode"}

MissingAt(name) ==
  [_tag |-> "Key", key |-> [type |-> "string", val |-> name],
   errors |-> <<[_tag |-> "Missing"]>>]

UnexpectedAt(name, actual) ==
  [_tag |-> "Key", key |-> [type |-> "string", val |-> name],
   errors |-> <<[_tag |-> "Unexpected", actual |-> actual]>>]

Failed(es) == [_tag |-> "Left", left |-> [_tag |-> "ParseError", errors |-> es]]

Succeeded(props) == [_tag |-> "Right", right |-> [type |-> "object", val |-> props]]

\* What member i of the union being parsed gives on the input, by itself.
MemberOutcome(i) == go(args.ast.members[i], args.input, args.options, op = "decode")

Accepting == {i \in DOMAIN args.ast.members : isRight(MemberOutcome(i))}

AllRequired(ast) == \A i \in DOMAIN ast.fields : ~ast.fields[i].isOptional

\* Struct x declares the required fields of struct y and more.
Richer(x, y) ==
  /\ x._tag = "Struct" /\ y._tag = "Struct"
  /\ AllRequired(x) /\ AllRequired(y)
  /\ x.indexSignatures = <<>> /\ y.indexSignatures = <<>>
  /\ Elems(y.fields) \subseteq Elems(x.fields)
  /\ Elems(y.fields) # Elems(x.fields)

AB1 == Obj([a |-> Str("a"), b |-> Num(1)])
AC1 == Obj([a |-> Str("a"), c |-> Num(1)])

\* C7: with excess properties ignored, a value that satisfies both struct
\* members of a union, one of which declares a strict superset of the
\* other's required fields, decodes and encodes to the output of the richer
\* member in either order of the members: {a: "a", b: 1} against
\* union(struct({a}), struct({a, b})) gives {a: "a", b: 1}.
C7_RicherMemberWins ==
  /\ (Parsing /\ args.options.onExcessProperty = "ignore"
        /\ args.members \in {<<a, ab>>, <<ab, a>>} /\ args.input = AB1)
       => result = Succeeded([a |-> Str("a"), b |-> Num(1)])
  /\ (Parsing /\ args.options.onExcessProperty = "ignore" /\ Len(args.members) = 2)
       => \A i, j \in {1, 2} :
            (/\ Richer(args.members[i], args.members[j])
             /\ isRight(go(args.members[i], args.input, args.options, op = "decode"))
             /\ isRight(go(args.members[j], args.input, args.options, op = "decode")))
              => result = go(args.members[i], args.input, args.options, op = "decode")

\* {a: "a", b: 1} was decoded against the union given as (a, ab), the poorer
\* member first, and b was kept.
C7_Witness ==
  /\ op = "decode"
  /\ args.options.onExcessProperty = "ignore"
  /\ args.members = <<a, ab>>
  /\ args.input = AB1
  /\ isRight(result)
  /\ "b" \in DOMAIN result.right.val

\* C8: the members of union(struct({a, b?}), struct({a, c?})) weigh the same
\* and are tried in the order given; {a: "a", c: 1} decodes and encodes to
\* {a: "a"} when excess properties are ignored and to {a: "a", c: 1} when
\* they are errors, the first member then rejecting c as unexpected.
C8_EqualWeightMembersInGivenOrder ==
  (Parsing /\ args.members = <<abOptional, acOptional>> /\ args.input = AC1) =>
    /\ args.ast.members = <<abOptional, acOptional>>
    /\ args.options.onExcessProperty = "ignore"
         => result = Succeeded([a |-> Str("a")])
    /\ args.options.onExcessProperty = "error"
         => /\ result = Succeeded([a |-> Str("a"), c |-> Num(1)])
            /\ MemberOutcome(1) = Failed(<<UnexpectedAt("c", Num(1))>>)
            /\ isRight(MemberOutcome(2))

\* {a: "a", c: 1} was encoded against the union with excess properties as
\* errors, and c was kept.
C8_Witness ==
  /\ op = "encode"
  /\ args.members = <<abOptional, acOptional>>
  /\ args.input = AC1
  /\ args.options.onExcessProperty = "error"
  /\ result = Succeeded([a |-> Str("a"), c |-> Num(1)])

\* {a: "a", c: 1} was decoded against the union with excess properties ignored.
C8_WitnessIgnore ==
  /\ op = "decode"
  /\ args.members = <<abOptional, acOptional>>
  /\ args.input = AC1
  /\ args.options.onExcessProperty = "ignore"
  /\ result = Succeeded([a |-> Str("a")])

SeveralAccept ==
  /\ Parsing
  /\ args.ast._tag = "Union"
  /\ Cardinality(Accepting) > 1

\* C9 as stated: when more than one member accepts, the result contains
\* every property key that the output of any accepting member contains.
C9_OutputsMerged ==
  (SeveralAccept /\ isRight(result) /\ isObject(result.right)) =>
    \A i \in Accepting :
      isObject(MemberOutcome(i).right)
        => DOMAIN MemberOutcome(i).right.val \subseteq DOMAIN result.right.val

NoDiscriminants == \A i \in DOMAIN args.ast.members : getLiterals(args.ast.members[i]) = <<>>

FirstAccepting == CHOOSE i \in Accepting : \A j \in Accepting : i <= j

\* C9, amended: when more than one member accepts, the outputs are not
\* merged; the result is the output of one accepting member alone, the first
\* to accept in traversal order (the stored order, for members without
\* discriminants), so struct({a, b}) | struct({a, c}) on an object with a, b
\* and c, excess properties ignored, gives {a, b} only.
C9_FirstAcceptingMemberOnly ==
  /\ SeveralAccept => \E i \in Accepting : result = MemberOutcome(i)
  /\ (SeveralAccept /\ NoDiscriminants) => result = MemberOutcome(FirstAccepting)
  /\ (Parsing /\ args.members = <<ab, ac>> /\ args.options.onExcessProperty = "ignore"
        /\ args.input = Obj([a |-> Str("a"), b |-> Num(1), c |-> Num(1)]))
       => result = Succeeded([a |-> Str("a"), b |-> Num(1)])

\* Two members accepted, and the output of the second has a key that the
\* result does not have.
C9_Witness ==
  /\ SeveralAccept
  /\ isRight(result)
  /\ isObject(result.right)
  /\ \E i \in Accepting :
       /\ isObject(MemberOutcome(i).right)
       /\ ~(DOMAIN MemberOutcome(i).right.val \subseteq DOMAIN result.right.val)

(***************************************************************************)
(* Properties of keyof.                                                    *)
(***************************************************************************)
KeyofUnionCall ==
  /\ op = "keyof"
  /\ args.ast._tag = "Union"
  /\ \A i \in DOMAIN args.ast.members : isReturn(keyof(args.ast.members[i]))

FieldKeysOf(ast) == {ast.fields[i].key : i \in DOMAIN ast.fields}

\* C10: keyof of a Union node is the intersection of keyof of its members: a
\* key AST is in it exactly when it is in keyof of every member; for structs
\* without index signatures these are the keys of the fields all members have.
C10_KeyofUnionIsIntersection ==
  KeyofUnionCall =>
    /\ isReturn(result)
    /\ Elems(result.value) =
         {k \in Elems(keyof(args.ast.members[1]).value) :
            \A i \in DOMAIN args.ast.members : k \in Elems(keyof(args.ast.members[i]).value)}
    /\ (\A i \in DOMAIN args.ast.members :
          args.ast.members[i]._tag = "Struct" /\ args.ast.members[i].indexSignatures = <<>>)
         => Elems(result.value) =
              {literalType(k, NoAnnotations) :
                 k \in {k \in FieldKeysOf(args.ast.members[1]) : k.type # "symbol" /\
                          \A i \in DOMAIN args.ast.members :
                            k \in FieldKeysOf(args.ast.members[i])}}
              \cup
              {uniqueSymbol(k, NoAnnotations) :
                 k \in {k \in FieldKeysOf(args.ast.members[1]) : k.type = "symbol" /\
                          \A i \in DOMAIN args.ast.members :
                            k \in FieldKeysOf(args.ast.members[i])}}

\* keyof of a union whose members share some keys but not all of them.
C10_Witness ==
  /\ KeyofUnionCall
  /\ isReturn(result)
  /\ result.value # <<>>
  /\ \E i \in DOMAIN args.ast.members :
       ~(Elems(keyof(args.ast.members[i]).value) \subseteq Elems(result.value))
  /\ \E i \in DOMAIN args.ast.members :
       /\ args.ast.members[i]._tag = "Struct"
       /\ args.ast.members[i].indexSignatures # <<>>

(***************************************************************************)
(* record and the nodes that denote property keys.                         *)
(***************************************************************************)
RECURSIVE KeyLike(_)
\* A key-like node: a string/number/symbol keyword, a literal whose value is a
\* string or a number, a unique symbol, never, or a union of key-like nodes.
KeyLike(ast) ==
  \/ ast._tag \in {"StringKeyword", "NumberKeyword", "SymbolKeyword", "NeverKeyword",
                   "UniqueSymbol"}
  \/ ast._tag = "LiteralType" /\ ast.literal.type \in {"string", "number"}
  \/ ast._tag = "Union" /\ \A i \in DOMAIN ast.members : KeyLike(ast.members[i])

\* C11: record(keyAst, valueAst, isReadonly) fails with a construction error
\* whenever keyAst is or contains, through its union members, a node that is
\* not key-like, and returns a Struct only when every node of keyAst is key-like.
C11_RecordRejectsEveryNonKey ==
  op = "record" =>
    /\ ~KeyLike(args.key) => isError(result)
    /\ isReturn(result) => (result.value._tag = "Struct" /\ KeyLike(args.key))

\* The case of C11 the code decides otherwise: a literal key that is neither a
\* string nor a number, with a Struct returned.
C11_LiteralSkipped ==
  /\ op = "record"
  /\ args.key = literal(Bool(TRUE))
  /\ result = Return(struct(<<>>, <<>>, NoAnnotations, FALSE))

\* The part of C11 the code keeps: a refinement, or a node of another kind
\* than keyword, literal, unique symbol or union, is always an error.
C11_RecordRejectsRefinementsAndNonKeyKinds ==
  op = "record" =>
    LET Rejected(k) == k._tag \notin {"StringKeyword", "NumberKeyword", "SymbolKeyword",
                                      "NeverKeyword", "UniqueSymbol", "LiteralType", "Union"}
    IN (Rejected(args.key)
        \/ (args.key._tag = "Union" /\ \E i \in DOMAIN args.key.members :
                                         Rejected(args.key.members[i])))
       => isError(result)

(***************************************************************************)
(* Lazy nodes and the invocations of their producers.                      *)
(***************************************************************************)
\* C12: the producer of a Lazy node is invoked at most once, whatever
\* sequence of keyof, propertyKeys, getFields and partial calls visits the node.
C12_ProducerInvokedAtMostOnce == \A p \in Producers : calls[p] <= 1

\* The case of C12 the code decides otherwise: a second keyof of the same Lazy
\* node invokes its producer a second time.
C12_ProducerInvokedAgain ==
  /\ op = "keyof"
  /\ args.ast = Category
  /\ calls["Category"] = 2

\* What the code does instead: a call invokes the producer once for every
\* visit of a Lazy node it makes, whatever was invoked before.
C12_OneInvocationPerVisit ==
  [][\A p \in Producers :
       /\ (op' = "keyof" /\ args'.ast._tag = "Lazy" /\ producerOf(args'.ast) = p)
            => calls'[p] = calls[p] + 1
       /\ op' = "partial" => calls'[p] = calls[p]]_vars

(***************************************************************************)
(* The shape of parse results.                                             *)
(***************************************************************************)
RECURSIVE NonEmptyErrors(_)
\* A non-empty sequence of entries whose Index, Key and UnionMember entries
\* wrap non-empty sequences of such entries in turn.
NonEmptyErrors(es) ==
  /\ es # <<>>
  /\ \A i \in DOMAIN es :
       es[i]._tag \in {"Index", "Key", "UnionMember"} => NonEmptyErrors(es[i].errors)

IsSuccess(r) == DOMAIN r = {"_tag", "right"} /\ r._tag = "Right"

IsFailure(r) ==
  /\ DOMAIN r = {"_tag", "left"}
  /\ r._tag = "Left"
  /\ DOMAIN r.left = {"_tag", "errors"}
  /\ r.left._tag = "ParseError"

\* C13: a parse result is either a success with a value or a failure with one
\* ParseError, never both; the ParseError of failure(e) holds exactly e, that
\* of failures(es) holds es in order, neither is empty, and every Index, Key
\* and UnionMember entry of a failure wraps a non-empty sequence.
C13_ParseResultWellFormed ==
  /\ op \in {"success", "failure", "failures", "decode", "encode"} =>
       /\ IsSuccess(result) \/ IsFailure(result)
       /\ ~(IsSuccess(result) /\ IsFailure(result))
       /\ IsFailure(result) => NonEmptyErrors(result.left.errors)
  /\ op = "success" => (IsSuccess(result) /\ result.right = args.a)
  /\ op = "failure" => (IsFailure(result) /\ result.left.errors = <<args.e>>)
  /\ op = "failures" => (IsFailure(result) /\ result.left.errors = args.es)

\* failures(es) was called with two entries, one of which wraps a Key entry.
C13_Witness ==
  /\ op = "failures"
  /\ IsFailure(result)
  /\ Len(result.left.errors) = 2
  /\ \E i \in DOMAIN result.left.errors :
       /\ result.left.errors[i]._tag = "UnionMember"
       /\ result.left.errors[i].errors[1]._tag = "Key"

(***************************************************************************)
(* The tuple a client grows from the empty tuple.                          *)
(***************************************************************************)
HasOptionalElement(ast) == \E i \in DOMAIN ast.elements : ast.elements[i].isOptional

\* C14: after any sequence of appendElement and appendRestElement calls on the
\* empty tuple, no required element comes after an optional element, and a
\* rest of more than one type comes with no optional element at all.
C14_TupleOrderKept ==
  /\ \A i, j \in DOMAIN tup.elements :
       (i < j /\ tup.elements[i].isOptional) => tup.elements[j].isOptional
  /\ (isSome(tup.rest) /\ Len(tup.rest.value) > 1) => ~HasOptionalElement(tup)

\* An element was appended after the rest of a tuple that has elements.
C14_Witness ==
  /\ op = "appendElement"
  /\ isReturn(result)
  /\ tup = result.value
  /\ tup.elements # <<>>
  /\ isSome(tup.rest)
  /\ Len(tup.rest.value) > 1

\* A call that fails leaves the tuple as it was: a required element after an
\* optional one, and an optional element after the rest, are both refused.
C14_FailedCallReached ==
  /\ op = "appendElement"
  /\ isError(result)
  /\ tup = args.ast
  /\ HasOptionalElement(tup)
  /\ isSome(tup.rest)

(***************************************************************************)
(* partial.                                                                *)
(***************************************************************************)
RECURSIVE DeepOptional(_)
\* Every field and element is optional, in ast and in every Struct or Tuple
\* inside the value type of a field or an element.
DeepOptional(ast) ==
  CASE ast._tag = "Struct" ->
         \A i \in DOMAIN ast.fields :
            ast.fields[i].isOptional /\ DeepOptional(ast.fields[i].value)
    [] ast._tag = "Tuple" ->
         \A i \in DOMAIN ast.elements :
            ast.elements[i].isOptional /\ DeepOptional(ast.elements[i].type)
    [] OTHER -> TRUE

\* partial(ast) of a Struct: the same keys, every field optional.
SameKeysAllOptional(ast, r) ==
  /\ r._tag = "Struct"
  /\ Len(r.fields) = Len(ast.fields)
  /\ {r.fields[i].key : i \in DOMAIN r.fields} = {ast.fields[i].key : i \in DOMAIN ast.fields}
  /\ \A i \in DOMAIN r.fields : r.fields[i].isOptional

\* partial(ast) of a Tuple: every element optional, undefined added to the rest.
ElementsOptionalRestWithUndefined(ast, r) ==
  /\ r._tag = "Tuple"
  /\ Len(r.elements) = Len(ast.elements)
  /\ \A i \in DOMAIN r.elements : r.elements[i].isOptional
  /\ isSome(r.rest) = isSome(ast.rest)
  /\ isSome(ast.rest) =>
       r.rest.value = <<union(ast.rest.value \o <<undefinedKeyword(NoAnnotations)>>,
                              NoAnnotations)>>

\* partial(ast) of a Union: the union of partial of each member.
UnionOfPartialMembers(ast, r) ==
  r = union([i \in DOMAIN ast.members |-> partial(ast.members[i])], NoAnnotations)

\* C15 as stated: partial makes every field and element optional, those of the
\* Structs and Tuples nested inside the value types included.
C15_PartialIsDeep ==
  op = "partial" =>
    /\ args.ast._tag = "Struct" =>
         (SameKeysAllOptional(args.ast, result.value) /\ DeepOptional(result.value))
    /\ args.ast._tag = "Tuple" =>
         (ElementsOptionalRestWithUndefined(args.ast, result.value)
          /\ DeepOptional(result.value))
    /\ args.ast._tag = "Union" => UnionOfPartialMembers(args.ast, result.value)

\* C15 amended: partial makes the fields and elements of the node itself
\* optional and leaves every value type as it was; a Tuple's rest becomes the
\* one type union(rest types, undefined); a Union gives the union of partial
\* of its members.
C15_PartialIsShallow ==
  op = "partial" =>
    /\ args.ast._tag = "Struct" =>
         /\ SameKeysAllOptional(args.ast, result.value)
         /\ \A i \in DOMAIN result.value.fields : \E j \in DOMAIN args.ast.fields :
              /\ args.ast.fields[j].key = result.value.fields[i].key
              /\ args.ast.fields[j].value = result.value.fields[i].value
         /\ result.value.indexSignatures = args.ast.indexSignatures
    /\ args.ast._tag = "Tuple" =>
         /\ ElementsOptionalRestWithUndefined(args.ast, result.value)
         /\ \A i \in DOMAIN result.value.elements :
              result.value.elements[i].type = args.ast.elements[i].type
    /\ args.ast._tag = "Union" => UnionOfPartialMembers(args.ast, result.value)

\* partial of a Struct whose field holds a Struct with a required field: the
\* outer field is optional now, the inner field is still required.
C15_Witness ==
  /\ op = "partial"
  /\ args.ast._tag = "Struct"
  /\ \E i \in DOMAIN args.ast.fields : ~args.ast.fields[i].isOptional
  /\ \E i \in DOMAIN result.value.fields :
       /\ result.value.fields[i].isOptional
       /\ result.value.fields[i].value._tag = "Struct"
       /\ \E j \in DOMAIN result.value.fields[i].value.fields :
            ~result.value.fields[i].value.fields[j].isOptional

(***************************************************************************)
(* keyof of a Struct.                                                      *)
(***************************************************************************)
\* A field key is covered by an index signature of its own kind, and a number
\* key by a string index signature too.
Covered(k, indexSignatures) ==
  \E i \in DOMAIN indexSignatures :
     \/ indexSignatures[i].key = k.type
     \/ indexSignatures[i].key = "string" /\ k.type = "number"

\* The key AST of a field: a literal for a string or number key, a unique
\* symbol for a symbol key.
KeyASTOf(k) ==
  IF k.type \in {"string", "number"}
  THEN [_tag |-> "LiteralType", literal |-> k, annotations |-> {}]
  ELSE [_tag |-> "UniqueSymbol", symbol |-> k, annotations |-> {}]

\* The key domain of an index signature; that of a string one holds the
\* number keys as well.
KeyDomainOf(is) ==
  CASE is.key = "symbol" -> [_tag |-> "SymbolKeyword", annotations |-> {}]
    [] is.key = "number" -> [_tag |-> "NumberKeyword", annotations |-> {}]
    [] is.key = "string" ->
         [_tag |-> "Union", annotations |-> {},
          members |-> <<[_tag |-> "StringKeyword", annotations |-> {}],
                        [_tag |-> "NumberKeyword", annotations |-> {}]>>]

\* C16: keyof of a Struct is the key AST of each field whose key no index
\* signature covers, in field order, followed by the key domain of each index
\* signature, in signature order.
C16_KeyofStruct ==
  (op = "keyof" /\ args.ast._tag = "Struct") =>
    LET uncovered == SelectSeq(args.ast.fields,
                               LAMBDA f : ~Covered(f.key, args.ast.indexSignatures))
    IN result = Return([i \in DOMAIN uncovered |-> KeyASTOf(uncovered[i].key)]
                       \o [i \in DOMAIN args.ast.indexSignatures |->
                             KeyDomainOf(args.ast.indexSignatures[i])])

\* keyof of a struct with a string index signature and fields of a string, a
\* number and a symbol key: only the symbol key is listed before the domain.
C16_Witness ==
  /\ op = "keyof"
  /\ args.ast._tag = "Struct"
  /\ \E i \in DOMAIN args.ast.indexSignatures : args.ast.indexSignatures[i].key = "string"
  /\ \E i \in DOMAIN args.ast.fields : args.ast.fields[i].key.type = "number"
  /\ \E i \in DOMAIN args.ast.fields : args.ast.fields[i].key.type = "symbol"
  /\ isReturn(result)
  /\ Len(result.value) = 2
  /\ result.value[1]._tag = "UniqueSymbol"
  /\ result.value[2]._tag = "Union"
====
